---------------------------- MODULE Spec2Model ----------------------------
(***************************************************************************)
(* A model of dynamo-down (src/dynamo-down.js): the attribute-value codec  *)
(* (serialize / parse), the key/item mapper (_toItem / _toKV), the         *)
(* iterator (DynamoIterator: constructor and _next) and the batch writer   *)
(* (DynamoDOWN._batch).                                                    *)
(*                                                                         *)
(* JavaScript values are tagged one-field records, so that values of       *)
(* different types can be compared:                                        *)
(*   null -> [null |-> TRUE]      "a"  -> [str |-> "a"]                    *)
(*   true -> [bool |-> TRUE]      7    -> [num |-> 7]                      *)
(*   [..] -> [list |-> <<..>>]    {..} -> [map |-> [k |-> ..]]             *)
(* undefined / absent is None.  DynamoDB attribute values are the one-     *)
(* field records [NULL |-> TRUE], [S |-> s], [BOOL |-> b], [N |-> digits], *)
(* [L |-> <<..>>], [M |-> [k |-> ..]], as on the wire.                     *)
(***************************************************************************)
EXTENDS Integers, Sequences, FiniteSets, TLC

VARIABLES
  \* codec and mapper (serialize, parse, _toItem, _toKV)
  cval,        \* a native value handed to serialize
  attr,        \* serialize(cval), or None before the call
  back,        \* parse(attr), or None before the call
  rec,         \* a record {key, value} handed to _toItem (value is JSON text)
  item,        \* _toItem(rec), or None
  kv,          \* _toKV(item), or None
  \* iterator (DynamoIterator)
  options,     \* the options the iterator was constructed with
  limit,       \* this._limit
  reverse,     \* this._reverse
  lowerBound,  \* this._lowerBound (None when not set)
  upperBound,  \* this._upperBound (None when not set)
  params,      \* this._params
  items,       \* this._items
  cursor,      \* this._cursor
  ipc,         \* "idle": no next() in progress; "querying": db._dynamo.query outstanding
  last,        \* what the callback of the latest next() received
  out,         \* every (key, value) a next() callback received, in order
  queries,     \* the params of every query issued, in order
  pages,       \* the number of Items in every query response, in order
  errs,        \* the number of failed queries
  asked,       \* the number of queries the latest next() call issued
  ends,        \* the number of next() callbacks that received end-of-sequence
  table,       \* provider: the items matching the query, in scan order
  pageSize,    \* provider: the most items it puts in one page
  \* batch writer (DynamoDOWN._batch)
  array,       \* the operations handed to batch()
  ops,         \* the closure's ops: entries not yet submitted
  reqs,        \* params.RequestItems[TableName]: the entries of the latest call
  bpc,         \* "init", "calling" (batchWriteItem outstanding), "done", "failed"
  calls,       \* the number of batchWriteItem calls made
  unproc,      \* data.UnprocessedItems[TableName] of the latest response
  opsBefore,   \* ops as it was when the latest loop() run began
  accepted,    \* provider: entries of a call it did not report unprocessed
  bcb,         \* the invocations of batch()'s callback, in order
  retries,     \* the number of responses that reported unprocessed items
  berrs,       \* the number of batchWriteItem calls answered with an error
  bresps,      \* the number of batchWriteItem calls answered with data
  \* get, put, del against a provider that stores items faithfully
  store,       \* provider: the items of the partition, by range key
  expect,      \* the value of the last completed write of each key (None: deleted or never put)
  getres,      \* the outcome of the latest get, with what expect held for its key
  \* destroy(location, cb)
  dops,        \* the closure's ops: deletes collected and not yet flushed
  dpc,         \* "pulling", "flushing" (then pull), "finishing" (then cb), "done"; "off" outside destroy
  dcb          \* the invocations of destroy's callback, in order

codecVars == <<cval, attr, back, rec, item, kv>>
iterVars  == <<options, limit, reverse, lowerBound, upperBound, params, items,
               cursor, ipc, last, out, queries, pages, errs, asked, ends, table,
               pageSize>>
batchVars == <<array, ops, reqs, bpc, calls, unproc, opsBefore, accepted, bcb,
               retries, berrs, bresps>>
kvVars    == <<store, expect, getres>>
destroyVars == <<dops, dpc, dcb>>
extraVars == <<kvVars, destroyVars>>
vars      == <<codecVars, iterVars, batchVars, extraVars>>

-----------------------------------------------------------------------------
(* Bounds of the model.                                                    *)

MaxDepth == 2      \* nesting depth of the native values handed to the codec
MaxItems == 4      \* most items in the queried partition
MaxPage == 3       \* largest provider page size
MaxLimit == 3      \* largest options.limit
MaxErrs == 1       \* most failed queries of one iterator
MaxEnds == 2       \* most end-of-sequence callbacks of one iterator
MaxOps == 60       \* most operations in one batch() call
MaxRetries == 2    \* most batch responses that report unprocessed items

-----------------------------------------------------------------------------
(* JavaScript values.                                                      *)

None == [none |-> TRUE]
Null == [null |-> TRUE]
Str(s) == [str |-> s]
Bool(b) == [bool |-> b]
Num(n) == [num |-> n]
List(l) == [list |-> l]
Map(m) == [map |-> m]

IsNull(v) == "null" \in DOMAIN v
IsStr(v) == "str" \in DOMAIN v
IsBool(v) == "bool" \in DOMAIN v
IsNum(v) == "num" \in DOMAIN v
IsList(v) == "list" \in DOMAIN v
IsMap(v) == "map" \in DOMAIN v

EmptyMap == [k \in {} |-> Null]

\* obj[name] = v
SetAttr(m, name, v) ==
  [k \in (DOMAIN m) \cup {name} |-> IF k = name THEN v ELSE m[k]]

\* delete obj[name]
DelAttr(m, name) == [k \in (DOMAIN m) \ {name} |-> m[k]]

\* obj[name], undefined when the property is missing
GetAttr(m, name) == IF name \in DOMAIN m THEN m[name] ELSE None

Min(a, b) == IF a <= b THEN a ELSE b

-----------------------------------------------------------------------------
(* String(n) and parseFloat(s, 10) on integers: decimal digits, most       *)
(* significant first, with a leading "-" for a negative number.            *)

Digit == <<"0", "1", "2", "3", "4", "5", "6", "7", "8", "9">>

RECURSIVE NatStr(_)
NatStr(n) ==
  IF n < 10 THEN <<Digit[n + 1]>>
  ELSE Append(NatStr(n \div 10), Digit[(n % 10) + 1])

\* String(n) with the sign lost
NumStrUnsigned(n) == IF n < 0 THEN NatStr(0 - n) ELSE NatStr(n)

NumStr(n) == IF n < 0 THEN <<"-">> \o NatStr(0 - n) ELSE NatStr(n)

DigitVal(c) == (CHOOSE i \in 1..10 : Digit[i] = c) - 1

RECURSIVE ParseNat(_, _)
ParseNat(s, acc) ==
  IF s = <<>> THEN acc ELSE ParseNat(Tail(s), 10 * acc + DigitVal(Head(s)))

ParseFloat(s) ==
  IF Head(s) = "-" THEN 0 - ParseNat(Tail(s), 0) ELSE ParseNat(s, 0)

-----------------------------------------------------------------------------
(* The codec.  Buffer values and values of other constructors (for which   *)
(* serialize throws) are outside the value domain of this model.           *)

RECURSIVE serialize(_)
serialize(value) ==
  IF value = None \/ IsNull(value) \/ value = Str("") THEN [NULL |-> TRUE]
  ELSE IF IsStr(value) THEN [S |-> value.str]
  ELSE IF IsBool(value) THEN [BOOL |-> value.bool]
  ELSE IF IsNum(value) THEN [N |-> NumStr(value.num)]
  ELSE IF IsList(value)
    THEN [L |-> [i \in DOMAIN value.list |-> serialize(value.list[i])]]
  ELSE [M |-> [k \in DOMAIN value.map |-> serialize(value.map[k])]]

RECURSIVE parse(_)
parse(val) ==
  IF "NULL" \in DOMAIN val THEN Null
  ELSE IF "S" \in DOMAIN val THEN Str(val.S)
  ELSE IF "BOOL" \in DOMAIN val THEN Bool(val.BOOL)
  ELSE IF "N" \in DOMAIN val THEN Num(ParseFloat(val.N))
  ELSE IF "L" \in DOMAIN val
    THEN List([i \in DOMAIN val.L |-> parse(val.L[i])])
  ELSE Map([k \in DOMAIN val.M |-> parse(val.M[k])])

-----------------------------------------------------------------------------
(* JSON text.  JSON.stringify and JSON.parse are inverse to each other on  *)
(* the value domain of this model (null, strings, booleans, integers,      *)
(* lists, maps); a JSON text is the value it denotes, wrapped.             *)

JSONstringify(v) == [json |-> v]
JSONparse(text) == text.json

-----------------------------------------------------------------------------
(* The schema of the opened adapter: _schema.hash.value comes from the     *)
(* location, the attribute names from describeTable.                       *)

HashName == "hkey"
RangeName == "rkey"
HashValue == "H"
TableName == "tbl"

schema == [hash |-> [name |-> HashName, value |-> Str(HashValue)],
           range |-> [name |-> RangeName]]

-----------------------------------------------------------------------------
(* The mapper.                                                             *)

\* _toItem({key, value}): value is JSON text, or None when not given
toItem(r) ==
  LET item0 == IF r.value # None THEN JSONparse(r.value) ELSE Map(EmptyMap)
      item1 == SetAttr(item0.map, schema.hash.name, schema.hash.value)
      item2 == SetAttr(item1, schema.range.name, r.key)
  IN  serialize(Map(item2)).M

\* _toKV(item)
toKV(it) ==
  LET value == parse([M |-> it])
      key == GetAttr(value.map, schema.range.name)
  IN  [key |-> key, value |-> Map(DelAttr(value.map, schema.hash.name))]

-----------------------------------------------------------------------------
(* The values the codec and the mapper are applied to: scalars, and lists  *)
(* and maps nested to depth d.  The second element of a list and the       *)
(* second entry of a map are scalars, which keeps the set small.           *)

Scalars == {Null, Str(""), Str("a"), Bool(TRUE), Bool(FALSE), Num(0), Num(0 - 12)}
TailScalars == {Null, Str(""), Num(305)}
RecordKeys == {"k1", "k2"}

RECURSIVE Values(_)
Values(d) ==
  IF d = 0 THEN Scalars
  ELSE LET V == Values(d - 1)
       IN  Scalars
             \cup {List(<<>>)}
             \cup {List(<<x>>) : x \in V}
             \cup {List(<<x, y>>) : x \in V, y \in TailScalars}
             \cup {Map(EmptyMap)}
             \cup {Map([x |-> a]) : a \in V}
             \cup {Map([x |-> a, y |-> b]) : a \in V, b \in TailScalars}

\* the state of the parts of the program a specification does not exercise
CodecUnused ==
  /\ cval = None /\ attr = None /\ back = None
  /\ rec = None /\ item = None /\ kv = None

IterUnused ==
  /\ options = None /\ limit = 0 /\ reverse = FALSE
  /\ lowerBound = None /\ upperBound = None /\ params = None
  /\ items = <<>> /\ cursor = 0 /\ ipc = "idle" /\ last = None
  /\ out = <<>> /\ queries = <<>> /\ pages = <<>> /\ errs = 0
  /\ asked = 0 /\ ends = 0
  /\ table = <<>> /\ pageSize = 0

BatchUnused ==
  /\ array = <<>> /\ ops = <<>> /\ reqs = <<>> /\ bpc = "init" /\ calls = 0
  /\ unproc = <<>> /\ opsBefore = <<>> /\ accepted = <<>> /\ bcb = <<>>
  /\ retries = 0 /\ berrs = 0 /\ bresps = 0

KvUnused == store = EmptyMap /\ expect = EmptyMap /\ getres = None

DestroyUnused == dops = <<>> /\ dpc = "off" /\ dcb = <<>>

ExtraUnused == KvUnused /\ DestroyUnused

InitCodec ==
  /\ cval \in Values(MaxDepth)
  /\ attr = None /\ back = None /\ rec = None /\ item = None /\ kv = None
  /\ IterUnused /\ BatchUnused /\ ExtraUnused

\* attr = serialize(cval)
Serialize ==
  /\ attr = None
  /\ attr' = serialize(cval)
  /\ UNCHANGED <<cval, back, rec, item, kv, iterVars, batchVars, extraVars>>

\* back = parse(attr)
Parse ==
  /\ attr # None /\ back = None
  /\ back' = parse(attr)
  /\ UNCHANGED <<cval, attr, rec, item, kv, iterVars, batchVars, extraVars>>

\* item = _toItem({key, value}) for a record whose value is the JSON text of
\* the map cval, and item = _toItem({key}) as _get and _del call it
ToItem ==
  /\ rec = None /\ IsMap(cval)
  /\ \E key \in RecordKeys, withValue \in BOOLEAN :
       rec' = [key |-> Str(key),
               value |-> IF withValue THEN JSONstringify(cval) ELSE None]
  /\ item' = toItem(rec')
  /\ UNCHANGED <<cval, attr, back, kv, iterVars, batchVars, extraVars>>

\* kv = _toKV(item)
ToKV ==
  /\ item # None /\ kv = None
  /\ kv' = toKV(item)
  /\ UNCHANGED <<cval, attr, back, rec, item, iterVars, batchVars, extraVars>>

NextCodec == Serialize \/ Parse \/ ToItem \/ ToKV

SpecCodec == InitCodec /\ [][NextCodec]_vars

-----------------------------------------------------------------------------
(* Claims about the mapper and the codec.                                  *)

\* C8 (as claimed): for every record r = (key, value), _toKV(_toItem(r))
\* returns r's key and a value equal to r's value, a value that holds neither
\* the hash attribute nor the range attribute _toItem injected.
C8_MapperRoundTrip ==
  (kv # None /\ rec.value # None) =>
     /\ kv.key = rec.key
     /\ kv.value = JSONparse(rec.value)
     /\ schema.hash.name \notin DOMAIN kv.value.map
     /\ schema.range.name \notin DOMAIN kv.value.map

\* whether the empty string occurs in v, at any depth
RECURSIVE HasEmptyString(_)
HasEmptyString(v) ==
  IF IsList(v) THEN \E i \in DOMAIN v.list : HasEmptyString(v.list[i])
  ELSE IF IsMap(v) THEN \E k \in DOMAIN v.map : HasEmptyString(v.map[k])
  ELSE v = Str("")

\* C9 (as claimed): parse(serialize(v)) = v for every native value v that is
\* not itself the empty string, also when an element or entry of v is the
\* empty string; and serialize(null) = serialize("") = {NULL: true}.
C9_CodecRoundTripAsClaimed ==
  /\ (back # None /\ cval # Str("")) => back = cval
  /\ serialize(Null) = [NULL |-> TRUE]
  /\ serialize(Str("")) = [NULL |-> TRUE]

\* C9 (amended): parse(serialize(v)) = v for every native value v in which
\* the empty string occurs at no depth; where it occurs, it comes back as
\* null; and serialize(null) = serialize("") = {NULL: true}.
C9_CodecRoundTrip ==
  /\ (back # None /\ ~HasEmptyString(cval)) => back = cval
  /\ (back # None /\ cval = List(<<Str("")>>)) => back = List(<<Null>>)
  /\ (attr # None /\ cval \in {Null, Str("")}) => attr = [NULL |-> TRUE]

\* C9 witness: a map nested in a list, holding a negative number and no
\* empty string, has been serialized and parsed back.
C9_Witness ==
  /\ back # None
  /\ cval = List(<<Map([x |-> Num(0 - 12), y |-> Null]), Num(305)>>)

-----------------------------------------------------------------------------
(* The iterator: DynamoIterator's constructor.                             *)

\* this._limit = Infinity: no cursor value equals it
Infinity == -1

\* "name" in options
In(o, name) == o[name] # None

\* a || b on option values (strings, or None when absent)
Or(a, b) == IF a # None /\ a # Str("") THEN a ELSE b

limitOf(o) == IF o.limit # -1 THEN o.limit ELSE Infinity

reverseOf(o) == o.reverse = TRUE

lowerBoundOf(o) ==
  IF In(o, "gt") \/ In(o, "gte")
    THEN [key |-> Or(o.gt, o.gte), inclusive |-> In(o, "gte")]
    ELSE None

upperBoundOf(o) ==
  IF In(o, "lt") \/ In(o, "lte")
    THEN [key |-> Or(o.lt, o.lte), inclusive |-> In(o, "lte")]
    ELSE None

Condition(op, avl) == [ComparisonOperator |-> op, AttributeValueList |-> avl]

\* KeyConditions with BETWEEN used only for two inclusive bounds
KeyConditionsInclusiveBetween(lb, ub) ==
  LET hashOnly ==
        SetAttr(EmptyMap, schema.hash.name,
                Condition("EQ", <<serialize(schema.hash.value)>>))
  IN  IF lb # None /\ ub # None /\ lb.inclusive /\ ub.inclusive
        THEN SetAttr(hashOnly, schema.range.name,
                     Condition("BETWEEN",
                               <<serialize(lb.key), serialize(ub.key)>>))
      ELSE IF lb # None
        THEN SetAttr(hashOnly, schema.range.name,
                     Condition(IF lb.inclusive THEN "GE" ELSE "GT",
                               <<serialize(lb.key)>>))
      ELSE IF ub # None
        THEN SetAttr(hashOnly, schema.range.name,
                     Condition(IF ub.inclusive THEN "LE" ELSE "LT",
                               <<serialize(ub.key)>>))
      ELSE hashOnly

\* this._params.KeyConditions
KeyConditions(lb, ub) ==
  LET hashOnly ==
        SetAttr(EmptyMap, schema.hash.name,
                Condition("EQ", <<serialize(schema.hash.value)>>))
  IN  IF lb # None /\ ub # None
        THEN SetAttr(hashOnly, schema.range.name,
                     Condition("BETWEEN",
                               <<serialize(lb.key), serialize(ub.key)>>))
      ELSE IF lb # None
        THEN SetAttr(hashOnly, schema.range.name,
                     Condition(IF lb.inclusive THEN "GE" ELSE "GT",
                               <<serialize(lb.key)>>))
      ELSE IF ub # None
        THEN SetAttr(hashOnly, schema.range.name,
                     Condition(IF ub.inclusive THEN "LE" ELSE "LT",
                               <<serialize(ub.key)>>))
      ELSE hashOnly

\* this._params; a property that is not set is None
paramsOf(o) ==
  [TableName |-> TableName,
   KeyConditions |-> KeyConditions(lowerBoundOf(o), upperBoundOf(o)),
   Limit |-> IF limitOf(o) # Infinity THEN Num(limitOf(o)) ELSE None,
   ScanIndexForward |-> IF reverseOf(o) THEN Bool(FALSE) ELSE None,
   ExclusiveStartKey |-> None]

-----------------------------------------------------------------------------
(* The provider's side of db._dynamo.query.                                *)

KeyName(i) == "k" \o ToString(i)

\* the item stored for the i-th key, as _put writes it
StoredItem(i) ==
  toItem([key |-> Str(KeyName(i)),
          value |-> JSONstringify(Map([v |-> Num(i)]))])

\* the n stored items in scan order: descending when ScanIndexForward is false
ScanOrder(n, rev) ==
  [i \in 1..n |-> StoredItem(IF rev THEN n + 1 - i ELSE i)]

\* the key attributes of an item: what LastEvaluatedKey holds
KeyOf(it) == [k \in {HashName, RangeName} |-> it[k]]

\* how many items of the scan precede the position a query resumes from
Position(startKey) ==
  IF startKey = None THEN 0
  ELSE CHOOSE i \in 1..Len(table) : KeyOf(table[i]) = startKey

\* the most items one response to query p may hold
PageCap(p) ==
  IF p.Limit = None THEN pageSize ELSE Min(pageSize, p.Limit.num)

\* the sizes the page answering query p may have: at least one item while
\* items remain, at most PageCap(p)
PageSizes(p) ==
  LET rem == Len(table) - Position(p.ExclusiveStartKey)
  IN  IF Min(PageCap(p), rem) <= 0 THEN {0} ELSE 1..Min(PageCap(p), rem)

\* the response holding the next n items; it carries a LastEvaluatedKey
\* exactly while items remain after the page
Response(p, n) ==
  LET pos == Position(p.ExclusiveStartKey)
  IN  [Items |-> SubSeq(table, pos + 1, pos + n),
       LastEvaluatedKey |->
         IF pos + n < Len(table) /\ n > 0 THEN KeyOf(table[pos + n]) ELSE None]

-----------------------------------------------------------------------------
(* The iterator: _next.                                                    *)

End == [end |-> TRUE]
Pending == [pending |-> TRUE]
ProviderError == [error |-> "ProviderError"]

\* this._items[c]: undefined (None) beyond the end and where deleted
ItemAt(its, c) == IF c + 1 \in DOMAIN its THEN its[c + 1] ELSE None

\* if (item): a {key, value} object is truthy, null and undefined are not
Truthy(it) == it # None /\ it # Null

\* Deliver with the item spliced out of the buffer instead of deleted in place
DeliverSplicing(its, p) ==
  LET it == ItemAt(its, cursor)
      got == [key |-> it.key, value |-> JSONstringify(it.value)]
  IN  /\ last' = got
      /\ out' = Append(out, got)
      /\ items' = SubSeq(its, 1, cursor) \o SubSeq(its, cursor + 2, Len(its))
      /\ cursor' = cursor + 1
      /\ ipc' = "idle"
      /\ params' = p
      /\ UNCHANGED <<queries, ends>>

\* src 115-121: hand the item to the callback, delete it, advance the cursor
Deliver(its, p) ==
  LET it == ItemAt(its, cursor)
      got == [key |-> it.key, value |-> JSONstringify(it.value)]
  IN  /\ last' = got
      /\ out' = Append(out, got)
      /\ items' = [its EXCEPT ![cursor + 1] = None]
      /\ cursor' = cursor + 1
      /\ ipc' = "idle"
      /\ params' = p
      /\ UNCHANGED <<queries, ends>>

\* Finish with the sentinel consumed like an item
FinishConsuming(its, p) ==
  /\ last' = End
  /\ ends' = ends + 1
  /\ items' = its
  /\ cursor' = cursor + 1
  /\ ipc' = "idle"
  /\ params' = p
  /\ UNCHANGED <<out, queries>>

\* src 123-126: end-of-sequence
Finish(its, p) ==
  /\ last' = End
  /\ ends' = ends + 1
  /\ items' = its
  /\ ipc' = "idle"
  /\ params' = p
  /\ UNCHANGED <<out, cursor, queries>>

\* Query with the page after this one requested at the same time
QueryPrefetching(its, p) ==
  /\ queries' = queries \o <<p, p>>
  /\ last' = Pending
  /\ items' = its
  /\ ipc' = "querying"
  /\ params' = p
  /\ UNCHANGED <<out, cursor, ends>>

\* src 128: issue the query with the current params
Query(its, p) ==
  /\ queries' = Append(queries, p)
  /\ last' = Pending
  /\ items' = its
  /\ ipc' = "querying"
  /\ params' = p
  /\ UNCHANGED <<out, cursor, ends>>

\* src 123: the sentinel was reached, or the limit was
AtEnd(it) == it = Null \/ cursor = limit

\* the body of _next, run on buffer its with this._params = p
NextBody(its, p, n) ==
  LET it == ItemAt(its, cursor)
  IN  IF Truthy(it) THEN Deliver(its, p) /\ asked' = n
      ELSE IF AtEnd(it) THEN Finish(its, p) /\ asked' = n
      ELSE Query(its, p) /\ asked' = n + 1

\* Fetched with the sentinel pushed after every page
FetchedAlwaysSealed(its, data) ==
  its \o [i \in DOMAIN data.Items |-> toKV(data.Items[i])] \o <<Null>>

\* src 133-135: the buffer after a response
Fetched(its, data) ==
  its \o [i \in DOMAIN data.Items |-> toKV(data.Items[i])]
      \o (IF data.LastEvaluatedKey = None THEN <<Null>> ELSE <<>>)

\* Continued with the token of the response dropped
ContinuedNever(p, data) == p

\* src 137: this._params after a response
Continued(p, data) == [p EXCEPT !.ExclusiveStartKey = data.LastEvaluatedKey]

\* iterator.next(cb): AbstractIterator runs _next when no next() is in
\* progress; the callback's deferral by setImmediate is part of the step
IterNext ==
  /\ ipc = "idle"
  /\ ends < MaxEnds
  /\ NextBody(items, params, 0)
  /\ UNCHANGED <<options, limit, reverse, lowerBound, upperBound, pages, errs,
                 table, pageSize, codecVars, batchVars, extraVars>>

\* the query callback with data: src 131-138
QueryOk ==
  /\ ipc = "querying"
  /\ \E n \in PageSizes(params) :
       LET data == Response(params, n)
       IN  /\ pages' = Append(pages, n)
           /\ NextBody(Fetched(items, data), Continued(params, data), asked)
  /\ UNCHANGED <<options, limit, reverse, lowerBound, upperBound, errs,
                 table, pageSize, codecVars, batchVars, extraVars>>

\* QueryErr with the query issued again instead of the error handed over
QueryErrRetrying ==
  /\ ipc = "querying"
  /\ errs < MaxErrs
  /\ errs' = errs + 1
  /\ queries' = Append(queries, params)
  /\ asked' = asked + 1
  /\ UNCHANGED <<options, limit, reverse, lowerBound, upperBound, params, items,
                 cursor, ipc, last, out, pages, ends, table, pageSize,
                 codecVars, batchVars, extraVars>>

\* QueryErr with the continuation token forgotten
QueryErrResetting ==
  /\ ipc = "querying"
  /\ errs < MaxErrs
  /\ errs' = errs + 1
  /\ last' = ProviderError
  /\ ipc' = "idle"
  /\ params' = [params EXCEPT !.ExclusiveStartKey = None]
  /\ UNCHANGED <<options, limit, reverse, lowerBound, upperBound, items,
                 cursor, out, queries, pages, asked, ends, table, pageSize,
                 codecVars, batchVars, extraVars>>

\* the query callback with err: src 129
QueryErr ==
  /\ ipc = "querying"
  /\ errs < MaxErrs
  /\ errs' = errs + 1
  /\ last' = ProviderError
  /\ ipc' = "idle"
  /\ UNCHANGED <<options, limit, reverse, lowerBound, upperBound, params, items,
                 cursor, out, queries, pages, asked, ends, table, pageSize,
                 codecVars, batchVars, extraVars>>

IterOptions ==
  [gt : {None, Str("a")}, gte : {None, Str("b")},
   lt : {None, Str("m")}, lte : {None, Str("n")},
   limit : {-1} \cup (0..MaxLimit), reverse : BOOLEAN]

\* db.iterator(options) on an opened adapter whose partition holds n items
InitIter ==
  /\ options \in IterOptions
  /\ limit = limitOf(options)
  /\ reverse = reverseOf(options)
  /\ lowerBound = lowerBoundOf(options)
  /\ upperBound = upperBoundOf(options)
  /\ params = paramsOf(options)
  /\ items = <<>> /\ cursor = 0
  /\ ipc = "idle" /\ last = None /\ out = <<>> /\ queries = <<>>
  /\ pages = <<>> /\ errs = 0 /\ asked = 0 /\ ends = 0
  /\ \E n \in 0..MaxItems : table = ScanOrder(n, reverse)
  /\ pageSize \in 1..MaxPage
  /\ CodecUnused /\ BatchUnused /\ ExtraUnused

NextIter == IterNext \/ QueryOk \/ QueryErr

SpecIter == InitIter /\ [][NextIter]_vars

-----------------------------------------------------------------------------
(* Claims about the iterator.                                              *)

\* the record next() hands over for a provider item
RecordOf(it) ==
  [key |-> Str(it[RangeName].S), value |-> JSONstringify(toKV(it).value)]

CeilDiv(a, b) == (a + b - 1) \div b

\* every page so far held as many items as the provider's page size allows
FullPages ==
  \A i \in 1..Len(pages) :
    pages[i] = Min(pageSize, Len(table) - (i - 1) * pageSize)

\* C1 (as claimed): an iterator with a limit L over N matching items never
\* returns more than L records, whatever the pages, and has returned exactly
\* min(L, N) records when next() reports end-of-sequence.
C1_LimitEnforced ==
  limit # Infinity =>
    /\ Len(out) <= limit
    /\ last = End => Len(out) = Min(limit, Len(table))

\* C2: the records an unlimited iterator has returned are the provider's
\* items in scan order, none skipped, duplicated or reordered, and when
\* next() reports end-of-sequence all N of them have been returned.
C2_PaginationComplete ==
  limit = Infinity =>
    /\ Len(out) <= Len(table)
    /\ \A i \in 1..Len(out) : out[i] = RecordOf(table[i])
    /\ last = End => Len(out) = Len(table)

\* C2 witness: an unlimited iterator over at least three items, served in
\* several pages smaller than the partition, drained to end-of-sequence.
C2_Witness ==
  /\ limit = Infinity /\ last = End
  /\ Len(table) >= 3 /\ pageSize < Len(table) /\ Len(pages) >= 2
  /\ Len(out) = Len(table)

\* C3: an unlimited iterator over N items served in full pages of P < N
\* items, drained without a failed query, has issued exactly ceil(N/P)
\* queries when next() reports end-of-sequence, and the next() call that
\* reported it issued none.
C3_PaginationCalls ==
  (/\ limit = Infinity /\ pageSize < Len(table) /\ errs = 0 /\ FullPages
   /\ last = End)
    => /\ Len(queries) = CeilDiv(Len(table), pageSize)
       /\ asked = 0

\* C3 witness: N = 4 items in full pages of P = 2 (N a multiple of P),
\* drained to end-of-sequence.
C3_Witness ==
  /\ limit = Infinity /\ pageSize = 2 /\ Len(table) = 4 /\ errs = 0
  /\ FullPages /\ last = End /\ Len(out) = 4

\* C4: once next() has reported end-of-sequence, every later next() reports
\* end-of-sequence too, returns no record and issues no query.
C4_ExhaustedAbsorbing ==
  [][last = End => (last' = End /\ out' = out /\ queries' = queries)]_vars

\* C4 witness: end-of-sequence reported twice by an iterator that stopped at
\* its limit, without having seen the sentinel.
C4_Witness ==
  /\ ends >= 2 /\ last = End
  /\ cursor = limit /\ ItemAt(items, cursor) # Null

\* C10: the condition set always holds EQ on the hash attribute with the
\* adapter's hash value; on the range attribute it holds BETWEEN [lower,
\* upper] when both bounds are present, whatever their flags, GE or GT on the
\* lower key when only a lower bound is, LE or LT on the upper key when only
\* an upper bound is, and nothing when there is none.
C10_QueryPlan ==
  LET kc == params.KeyConditions
      hasLower == In(options, "gt") \/ In(options, "gte")
      hasUpper == In(options, "lt") \/ In(options, "lte")
  IN  /\ kc[HashName] = Condition("EQ", <<[S |-> HashValue]>>)
      /\ (hasLower /\ hasUpper) =>
           kc[RangeName] = Condition("BETWEEN", <<[S |-> lowerBound.key.str],
                                                  [S |-> upperBound.key.str]>>)
      /\ (hasLower /\ ~hasUpper) =>
           kc[RangeName] = Condition(IF lowerBound.inclusive THEN "GE" ELSE "GT",
                                     <<[S |-> lowerBound.key.str]>>)
      /\ (~hasLower /\ hasUpper) =>
           kc[RangeName] = Condition(IF upperBound.inclusive THEN "LE" ELSE "LT",
                                     <<[S |-> upperBound.key.str]>>)
      /\ (~hasLower /\ ~hasUpper) => DOMAIN kc = {HashName}
      /\ DOMAIN kc \subseteq {HashName, RangeName}
      /\ (In(options, "gt") /\ ~In(options, "gte")) =>
           (lowerBound.key = options.gt /\ ~lowerBound.inclusive)
      /\ (In(options, "gte") /\ ~In(options, "gt")) =>
           (lowerBound.key = options.gte /\ lowerBound.inclusive)
      /\ (In(options, "lt") /\ ~In(options, "lte")) =>
           (upperBound.key = options.lt /\ ~upperBound.inclusive)
      /\ (In(options, "lte") /\ ~In(options, "lt")) =>
           (upperBound.key = options.lte /\ upperBound.inclusive)

\* C10 witness: an exclusive lower and an inclusive upper bound, planned as
\* BETWEEN, in a query that was issued.
C10_Witness ==
  /\ In(options, "gt") /\ ~In(options, "gte")
  /\ In(options, "lte") /\ ~In(options, "lt")
  /\ Len(queries) >= 1
  /\ queries[1].KeyConditions[RangeName].ComparisonOperator = "BETWEEN"

-----------------------------------------------------------------------------
(* The batch writer: DynamoDOWN._batch.                                    *)

\* the provider's cap on the entries of one batchWriteItem call
BatchCap == 25

Ok == [ok |-> TRUE]

\* src 236-240: the provider entry of one operation
Entry(op) ==
  IF op.type = "del"
    THEN [DeleteRequest |-> [Key |-> toItem([key |-> op.key, value |-> None])]]
    ELSE [PutRequest |-> [Item |-> toItem([key |-> op.key, value |-> op.value])]]

\* array.splice(0, count): the elements removed; a negative count removes none
Spliced(a, count) == SubSeq(a, 1, Min(IF count < 0 THEN 0 ELSE count, Len(a)))

\* array.splice(0, count): what is left of the array
Remaining(a, count) ==
  SubSeq(a, Min(IF count < 0 THEN 0 ELSE count, Len(a)) + 1, Len(a))

\* src 249-251: data.UnprocessedItems[TableName] when it is there
Unprocessed(data) ==
  IF data # None /\ data.UnprocessedItems # None
       /\ TableName \in DOMAIN data.UnprocessedItems
    THEN data.UnprocessedItems[TableName]
    ELSE <<>>

\* loop with a full chunk spliced off the queue whatever is unprocessed
loopOverfilling(queue, err, data) ==
  IF err # None
    THEN /\ bcb' = Append(bcb, err)
         /\ bpc' = "failed"
         /\ UNCHANGED <<ops, reqs, calls>>
    ELSE LET r == Unprocessed(data) \o Spliced(queue, BatchCap)
         IN  /\ ops' = Remaining(queue, BatchCap)
             /\ IF Len(r) = 0
                  THEN /\ bcb' = Append(bcb, Ok)
                       /\ bpc' = "done"
                       /\ UNCHANGED <<reqs, calls>>
                  ELSE /\ reqs' = r
                       /\ calls' = calls + 1
                       /\ bpc' = "calling"
                       /\ UNCHANGED bcb

\* loop that completes as soon as the queue is empty
loopDoneOnEmptyQueue(queue, err, data) ==
  IF err # None
    THEN /\ bcb' = Append(bcb, err)
         /\ bpc' = "failed"
         /\ UNCHANGED <<ops, reqs, calls>>
    ELSE LET un == Unprocessed(data)
             r == un \o Spliced(queue, BatchCap - Len(un))
         IN  /\ ops' = Remaining(queue, BatchCap - Len(un))
             /\ IF Len(queue) = 0
                  THEN /\ bcb' = Append(bcb, Ok)
                       /\ bpc' = "done"
                       /\ UNCHANGED <<reqs, calls>>
                  ELSE /\ reqs' = r
                       /\ calls' = calls + 1
                       /\ bpc' = "calling"
                       /\ UNCHANGED bcb

\* loop that takes an error for a response without data
loopIgnoringError(queue, err, data) ==
  LET un == IF err # None THEN <<>> ELSE Unprocessed(data)
      r == un \o Spliced(queue, BatchCap - Len(un))
  IN  /\ ops' = Remaining(queue, BatchCap - Len(un))
      /\ IF Len(r) = 0
           THEN /\ bcb' = Append(bcb, Ok)
                /\ bpc' = "done"
                /\ UNCHANGED <<reqs, calls>>
           ELSE /\ reqs' = r
                /\ calls' = calls + 1
                /\ bpc' = "calling"
                /\ UNCHANGED bcb

\* loop that never submits unprocessed items again
loopDroppingUnprocessed(queue, err, data) ==
  IF err # None
    THEN /\ bcb' = Append(bcb, err)
         /\ bpc' = "failed"
         /\ UNCHANGED <<ops, reqs, calls>>
    ELSE LET r == Spliced(queue, BatchCap)
         IN  /\ ops' = Remaining(queue, BatchCap)
             /\ IF Len(r) = 0
                  THEN /\ bcb' = Append(bcb, Ok)
                       /\ bpc' = "done"
                       /\ UNCHANGED <<reqs, calls>>
                  ELSE /\ reqs' = r
                       /\ calls' = calls + 1
                       /\ bpc' = "calling"
                       /\ UNCHANGED bcb

\* loop that reports unprocessed items as an error
loopFailingOnUnprocessed(queue, err, data) ==
  IF err # None \/ Unprocessed(data) # <<>>
    THEN /\ bcb' = Append(bcb, ProviderError)
         /\ bpc' = "failed"
         /\ UNCHANGED <<ops, reqs, calls>>
    ELSE LET r == Spliced(queue, BatchCap)
         IN  /\ ops' = Remaining(queue, BatchCap)
             /\ IF Len(r) = 0
                  THEN /\ bcb' = Append(bcb, Ok)
                       /\ bpc' = "done"
                       /\ UNCHANGED <<reqs, calls>>
                  ELSE /\ reqs' = r
                       /\ calls' = calls + 1
                       /\ bpc' = "calling"
                       /\ UNCHANGED bcb

\* src 244-260: loop(err, data), run with the closure's ops = queue
loop(queue, err, data) ==
  IF err # None
    THEN /\ bcb' = Append(bcb, err)
         /\ bpc' = "failed"
         /\ UNCHANGED <<ops, reqs, calls>>
    ELSE LET un == Unprocessed(data)
             r == un \o Spliced(queue, BatchCap - Len(un))
         IN  /\ ops' = Remaining(queue, BatchCap - Len(un))
             /\ IF Len(r) = 0
                  THEN /\ bcb' = Append(bcb, Ok)
                       /\ bpc' = "done"
                       /\ UNCHANGED <<reqs, calls>>
                  ELSE /\ reqs' = r
                       /\ calls' = calls + 1
                       /\ bpc' = "calling"
                       /\ UNCHANGED bcb

\* the subsequence of s at the indices in S
SelectIdx(s, S) ==
  LET F[i \in 0..Len(s)] ==
        IF i = 0 THEN <<>>
        ELSE IF i \in S THEN Append(F[i - 1], s[i]) ELSE F[i - 1]
  IN  F[Len(s)]

\* the entries of a call the provider may report unprocessed: none, the
\* first, the last, both, every second one, or all of them
UnprocessedChoices(n) ==
  {{}, {1}, {n}, {1, n}, {i \in 1..n : i % 2 = 0}, 1..n}

\* _batch(array, options, cb): src 236-242 and the first run of loop
BatchStart ==
  /\ bpc = "init"
  /\ opsBefore' = [i \in DOMAIN array |-> Entry(array[i])]
  /\ loop(opsBefore', None, None)
  /\ UNCHANGED <<array, unproc, accepted, retries, berrs, bresps, codecVars,
                 iterVars, extraVars>>

\* batchWriteItem answers with data: the provider accepts the entries it
\* does not report unprocessed, and loop runs
BatchResponse ==
  /\ bpc = "calling"
  /\ \E S \in UnprocessedChoices(Len(reqs)) :
       LET un == SelectIdx(reqs, S)
           data == [UnprocessedItems |->
                      IF un = <<>> THEN EmptyMap
                      ELSE SetAttr(EmptyMap, TableName, un)]
       IN  /\ un # <<>> => retries < MaxRetries
           /\ retries' = IF un # <<>> THEN retries + 1 ELSE retries
           /\ accepted' = accepted \o SelectIdx(reqs, (1..Len(reqs)) \ S)
           /\ unproc' = un
           /\ opsBefore' = ops
           /\ bresps' = bresps + 1
           /\ loop(ops, None, data)
  /\ UNCHANGED <<array, berrs, codecVars, iterVars, extraVars>>

\* batchWriteItem answers with an error, and loop runs
BatchError ==
  /\ bpc = "calling"
  /\ berrs' = berrs + 1
  /\ loop(ops, ProviderError, None)
  /\ UNCHANGED <<array, unproc, opsBefore, accepted, retries, bresps,
                 codecVars, iterVars, extraVars>>

\* the operations of a batch of n: puts, every third one a delete
BatchInput(n) ==
  [i \in 1..n |->
     IF i % 3 = 0
       THEN [type |-> "del", key |-> Str(KeyName(i)), value |-> None]
       ELSE [type |-> "put", key |-> Str(KeyName(i)),
             value |-> JSONstringify(Map([v |-> Num(i)]))]]

\* the same operations with the second one addressing the key of the first
BatchInputRepeating(n) ==
  [i \in 1..n |->
     IF i = 2 THEN [BatchInput(n)[i] EXCEPT !.key = Str(KeyName(1))]
     ELSE BatchInput(n)[i]]

InitBatch ==
  /\ \E n \in 0..MaxOps : array \in {BatchInput(n), BatchInputRepeating(n)}
  /\ ops = <<>> /\ reqs = <<>> /\ bpc = "init" /\ calls = 0
  /\ unproc = <<>> /\ opsBefore = <<>> /\ accepted = <<>> /\ bcb = <<>>
  /\ retries = 0 /\ berrs = 0 /\ bresps = 0
  /\ CodecUnused /\ IterUnused /\ ExtraUnused

NextBatch == BatchStart \/ BatchResponse \/ BatchError

SpecBatch == InitBatch /\ [][NextBatch]_vars

-----------------------------------------------------------------------------
(* Claims about the batch writer.                                          *)

\* C5: every batchWriteItem call holds between 1 and 25 entries: the items
\* the preceding response reported unprocessed, in reported order, followed
\* by operations from the front of the pending queue up to 25 entries in
\* all; so a completed batch of n operations took at least ceil(n/25) calls
\* (3 for 60).
C5_BatchRoundShape ==
  /\ bpc = "calling" =>
       /\ Len(reqs) >= 1 /\ Len(reqs) <= BatchCap
       /\ LET fill == Min(BatchCap - Len(unproc), Len(opsBefore))
          IN  /\ reqs = unproc \o SubSeq(opsBefore, 1, fill)
              /\ ops = SubSeq(opsBefore, fill + 1, Len(opsBefore))
  /\ bcb = <<Ok>> => calls >= CeilDiv(Len(array), BatchCap)

\* C5 witness: a call of 25 entries that starts with two entries the
\* preceding response reported unprocessed, in a batch of 60 operations.
C5_Witness ==
  /\ bpc = "calling" /\ Len(array) = 60 /\ calls = 2
  /\ Len(unproc) = 2 /\ Len(reqs) = BatchCap
  /\ reqs[1] = unproc[1] /\ reqs[2] = unproc[2]

\* C6: batch() reports success only when the pending queue is empty and the
\* last response reported nothing unprocessed, every operation of the input
\* having been submitted and accepted; for an empty input it does so
\* without a provider call.
C6_BatchCompletion ==
  bcb # <<>> /\ bcb[1] = Ok =>
    /\ ops = <<>> /\ unproc = <<>>
    /\ LET submitted == {Entry(array[i]) : i \in DOMAIN array}
           taken == {accepted[j] : j \in DOMAIN accepted}
       IN  submitted \subseteq taken
    /\ Len(array) = 0 => calls = 0

\* C6 witness: a batch of more than 25 operations completed after a response
\* that reported unprocessed items.
C6_Witness ==
  /\ bcb = <<Ok>> /\ Len(array) > BatchCap /\ retries >= 1
  /\ Len(accepted) = Len(array)

\* C7: once a batchWriteItem call has answered with an error, the callback
\* has been invoked exactly once, with that error, and from then on no
\* provider call is made and the callback is not invoked again.
C7_BatchHardFailure ==
  /\ [](berrs >= 1 => bcb = <<ProviderError>>)
  /\ [][berrs >= 1 => (bcb' = bcb /\ calls' = calls /\ bpc' # "calling")]_vars

\* C7 witness: the second call of a batch fails while operations are still
\* pending.
C7_Witness ==
  /\ berrs = 1 /\ calls = 2 /\ Len(ops) > 0 /\ bpc = "failed"

-----------------------------------------------------------------------------
(* Further claims about the iterator.                                      *)

\* C11 (as claimed): with both gt and gte given the lower bound is the gte
\* key, inclusive; with both lt and lte given the upper bound is the lte key,
\* inclusive; key and flag of a bound always come from the same option.
C11_BoundPrecedence ==
  /\ (In(options, "gt") /\ In(options, "gte")) =>
       lowerBound = [key |-> options.gte, inclusive |-> TRUE]
  /\ (In(options, "lt") /\ In(options, "lte")) =>
       upperBound = [key |-> options.lte, inclusive |-> TRUE]
  /\ lowerBound # None =>
       \/ In(options, "gt")
            /\ lowerBound = [key |-> options.gt, inclusive |-> FALSE]
       \/ In(options, "gte")
            /\ lowerBound = [key |-> options.gte, inclusive |-> TRUE]
  /\ upperBound # None =>
       \/ In(options, "lt")
            /\ upperBound = [key |-> options.lt, inclusive |-> FALSE]
       \/ In(options, "lte")
            /\ upperBound = [key |-> options.lte, inclusive |-> TRUE]

\* C12: when a query fails, the callback of the next() call that issued it
\* receives the provider's error, no record and no end-of-sequence is
\* delivered, and no query is issued in its place.
C12_FetchError ==
  [][errs' = errs + 1 =>
       /\ last' = ProviderError
       /\ out' = out /\ ends' = ends
       /\ queries' = queries /\ asked' = asked
       /\ ipc' = "idle"]_vars

\* C12 witness: the query for a second page has failed, after records of the
\* first page were returned.
C12_Witness ==
  /\ last = ProviderError /\ errs = 1
  /\ Len(out) >= 1 /\ Len(pages) = 1 /\ Len(queries) = 2 /\ asked = 1

RECURSIVE Sum(_)
Sum(s) == IF s = <<>> THEN 0 ELSE Head(s) + Sum(Tail(s))

\* the LastEvaluatedKey of the latest of the responses pg, None without one
TokenAfter(pg) ==
  IF pg = <<>> \/ Sum(pg) >= Len(table) \/ pg[Len(pg)] = 0 THEN None
  ELSE KeyOf(table[Sum(pg)])

\* C16: a query issued before any response carries no ExclusiveStartKey;
\* every other query carries the LastEvaluatedKey of the latest response;
\* table, key conditions, Limit and ScanIndexForward are those the
\* constructor set, in every query.
C16_TokenChaining ==
  [][Len(queries') = Len(queries) + 1 =>
       LET q == queries'[Len(queries')]
       IN  /\ q.ExclusiveStartKey = TokenAfter(pages')
           /\ [q EXCEPT !.ExclusiveStartKey = None] = paramsOf(options)]_vars

\* C16 witness: a third query, carrying the key of the last item of the
\* second page.
C16_Witness ==
  /\ Len(queries) = 3 /\ Len(pages) = 2 /\ errs = 0
  /\ queries[1].ExclusiveStartKey = None
  /\ queries[3].ExclusiveStartKey = KeyOf(table[pages[1] + pages[2]])
  /\ queries[3].ExclusiveStartKey # queries[2].ExclusiveStartKey

\* C20: a failed query leaves buffer, cursor and params as they were; the
\* query issued after it is the one that failed, again; and the records
\* returned are the provider's items in order, none lost or duplicated,
\* all of them once an unlimited iterator reports end-of-sequence.
C20_ErrorFrame ==
  /\ [][errs' = errs + 1 =>
          (items' = items /\ cursor' = cursor /\ params' = params)]_vars
  /\ [][(last = ProviderError /\ Len(queries') = Len(queries) + 1) =>
          queries'[Len(queries')] = queries[Len(queries)]]_vars
  /\ [](\A i \in 1..Len(out) : out[i] = RecordOf(table[i]))
  /\ []((limit = Infinity /\ last = End) => Len(out) = Len(table))

\* C20 witness: an unlimited iterator drained over several pages, one of
\* whose queries failed and was issued again.
C20_Witness ==
  /\ errs = 1 /\ limit = Infinity /\ last = End
  /\ Len(pages) >= 2 /\ Len(queries) = Len(pages) + 1
  /\ Len(out) = Len(table)

-----------------------------------------------------------------------------
(* Further claims about the batch writer.                                  *)

\* a batch() call whose provider answers every call with data, in the end
\* without unprocessed items
NextBatchAnswered == BatchStart \/ BatchResponse

SpecBatchFair ==
  InitBatch /\ [][NextBatchAnswered]_vars /\ WF_vars(NextBatchAnswered)

\* an iterator, or a batch() call, each on its own
InitChains == InitIter \/ InitBatch

NextChains == (options # None /\ NextIter) \/ (options = None /\ NextBatch)

SpecChains == InitChains /\ [][NextChains]_vars

\* C13: an iterator has at most one query outstanding and a batch() call at
\* most one batchWriteItem call: the requests issued exceed the answers
\* received by at most one, and by one exactly while the chain waits.
C13_OneInFlight ==
  LET queriesOut == Len(queries) - Len(pages) - errs
      callsOut == calls - bresps - berrs
  IN  /\ queriesOut \in {0, 1}
      /\ queriesOut = 1 <=> ipc = "querying"
      /\ callsOut \in {0, 1}
      /\ callsOut = 1 <=> bpc = "calling"

\* C13 witness: a third page query outstanding after two answers; the batch
\* side is witnessed by C5.
C13_Witness ==
  /\ ipc = "querying" /\ Len(queries) = 3 /\ Len(pages) + errs = 2

\* the range key an entry addresses
EntryKey(e) ==
  IF "DeleteRequest" \in DOMAIN e THEN e.DeleteRequest.Key[RangeName]
  ELSE e.PutRequest.Item[RangeName]

\* no two elements of s address the same key
DistinctKeys(s) ==
  \A i, j \in DOMAIN s : i # j => EntryKey(s[i]) # EntryKey(s[j])

\* C15 (as claimed): whatever the input list, no batchWriteItem call holds
\* two entries addressing the same key, and no key is written twice in one
\* batch() call.
C15_OneOutcomePerKey ==
  /\ bpc = "calling" => DistinctKeys(reqs)
  /\ DistinctKeys(accepted)

\* how often e occurs in s
Count(s, e) == Cardinality({i \in DOMAIN s : s[i] = e})

\* C17: with a provider that answers every call with data and in the end
\* reports nothing unprocessed, batch() invokes its callback, with success;
\* and as long as the latest response reported unprocessed items, batch()
\* has invoked no callback and has a further call outstanding.
C17_BatchTermination ==
  /\ <>(bcb = <<Ok>>)
  /\ [](unproc # <<>> => (bcb = <<>> /\ bpc = "calling" /\ calls = bresps + 1))

\* C17 witness: completion after two responses that reported unprocessed
\* items.
C17_Witness ==
  /\ bcb = <<Ok>> /\ retries >= 2 /\ calls >= 3 /\ Len(array) > 0

\* C19: every entry of the input is, as often as the input holds it, either
\* still pending, or in the outstanding call, or accepted, never two of
\* these; the entries of a call that are not fresh from the queue are those
\* the response before reported unprocessed; on completion the accepted
\* entries are the input's, as multisets.
C19_ExactlyOnce ==
  LET entries == [i \in DOMAIN array |-> Entry(array[i])]
      all == {entries[i] : i \in DOMAIN entries}
  IN  /\ bpc = "calling" =>
           /\ Len(ops) + Len(reqs) + Len(accepted) = Len(entries)
           /\ \A e \in all :
                Count(ops, e) + Count(reqs, e) + Count(accepted, e)
                  = Count(entries, e)
           /\ SubSeq(reqs, 1, Len(unproc)) = unproc
      /\ bpc = "done" =>
           /\ Len(accepted) = Len(entries)
           /\ \A e \in all : Count(accepted, e) = Count(entries, e)

\* C19 witness: a batch of more than 25 operations completed although two
\* responses reported unprocessed items.
C19_Witness ==
  /\ bpc = "done" /\ retries = 2 /\ Len(array) > BatchCap
  /\ Len(accepted) = Len(array) /\ calls >= 4

-----------------------------------------------------------------------------
(* get, put, del and batch against a provider that stores items            *)
(* faithfully: store maps the range key of an item to the item, expect     *)
(* maps a key to the value of its last completed put, getres is the        *)
(* outcome of the last get.                                                *)

\* the values given to put: JSON texts of objects
KvValues ==
  {JSONstringify(Map([v |-> Num(1)])),
   JSONstringify(Map([v |-> Num(2)])),
   JSONstringify(Map([value |-> Str("a")])),
   JSONstringify(Map(EmptyMap))}

\* new Error("NotFound")
NotFound == [error |-> "NotFound"]

\* new Buffer(item)
Buffer(x) == [buffer |-> x]

\* src 196-208: the callback of getItem, with data.Item = Item
get(Item, valueEncoding, asBuffer) ==
  IF Item = None THEN [err |-> NotFound, value |-> None]
  ELSE LET value == toKV(Item).value
           isValue == valueEncoding # "json"
           it == IF isValue THEN GetAttr(value.map, "value")
                 ELSE JSONstringify(value)
       IN  [err |-> None, value |-> IF asBuffer # Bool(FALSE) THEN Buffer(it) ELSE it]

\* the provider applies the entries of one call in order
RECURSIVE Applied(_, _)
Applied(st, entries) ==
  IF entries = <<>> THEN st
  ELSE LET e == Head(entries)
           st1 == IF "DeleteRequest" \in DOMAIN e
                    THEN DelAttr(st, EntryKey(e).S)
                    ELSE SetAttr(st, EntryKey(e).S, e.PutRequest.Item)
       IN  Applied(st1, Tail(entries))

\* the last completed put of every key after the operations of a batch
RECURSIVE Expected(_, _)
Expected(ex, operations) ==
  IF operations = <<>> THEN ex
  ELSE LET op == Head(operations)
           ex1 == IF op.type = "del" THEN DelAttr(ex, op.key.str)
                  ELSE SetAttr(ex, op.key.str, op.value)
       IN  Expected(ex1, Tail(operations))

\* the batches given to batch(): a put and a delete of different keys, in
\* either order
KvBatches ==
  {<<[type |-> "put", key |-> Str(k1), value |-> text],
     [type |-> "del", key |-> Str(k2), value |-> None]>> :
       k1 \in RecordKeys, k2 \in RecordKeys, text \in KvValues}
  \cup
  {<<[type |-> "del", key |-> Str(k2), value |-> None],
     [type |-> "put", key |-> Str(k1), value |-> text]>> :
       k1 \in RecordKeys, k2 \in RecordKeys, text \in KvValues}

\* a batch whose operations address different keys
DistinctBatch(b) == \A i, j \in DOMAIN b : i # j => b[i].key # b[j].key

KvOtherUnused == CodecUnused /\ IterUnused /\ BatchUnused /\ DestroyUnused

InitKV ==
  /\ store = EmptyMap /\ expect = EmptyMap /\ getres = None
  /\ KvOtherUnused

\* src 211-219: put(key, value), completed
Put ==
  /\ \E k \in RecordKeys, text \in KvValues :
       /\ store' = SetAttr(store, k, toItem([key |-> Str(k), value |-> text]))
       /\ expect' = SetAttr(expect, k, text)
  /\ UNCHANGED <<getres, codecVars, iterVars, batchVars, destroyVars>>

\* src 221-227: del(key), completed
Del ==
  /\ \E k \in RecordKeys :
       /\ store' = DelAttr(store, k)
       /\ expect' = DelAttr(expect, k)
  /\ UNCHANGED <<getres, codecVars, iterVars, batchVars, destroyVars>>

\* src 233-263: batch(array) of fewer than 25 operations, completed: one
\* call, which the provider accepts whole
KvBatch ==
  /\ \E b \in {x \in KvBatches : DistinctBatch(x)} :
       /\ store' = Applied(store, Spliced([i \in DOMAIN b |-> Entry(b[i])],
                                          BatchCap))
       /\ expect' = Expected(expect, b)
  /\ UNCHANGED <<getres, codecVars, iterVars, batchVars, destroyVars>>

\* src 190-209: get(key, options), completed
Get ==
  /\ \E k \in RecordKeys, valueEncoding \in {"json", "utf8"},
        asBuffer \in {None, Bool(FALSE)} :
       LET Key == toItem([key |-> Str(k), value |-> None])
           r == get(GetAttr(store, Key[RangeName].S), valueEncoding, asBuffer)
       IN  getres' = [key |-> k, valueEncoding |-> valueEncoding,
                      asBuffer |-> asBuffer, err |-> r.err,
                      value |-> r.value, expected |-> GetAttr(expect, k)]
  /\ UNCHANGED <<store, expect, codecVars, iterVars, batchVars, destroyVars>>

NextKV == Put \/ Del \/ KvBatch \/ Get

SpecKV == InitKV /\ [][NextKV]_vars

\* what a get handed over, out of its Buffer when it is one
Content(x) == IF x # None /\ "buffer" \in DOMAIN x THEN x.buffer ELSE x

\* C14 (as claimed): get(k) fails with NotFound exactly when k was never put
\* or was deleted last, and otherwise hands over exactly the value of the
\* last completed put of k.
C14_GetSemantics ==
  getres # None =>
    /\ getres.err = NotFound <=> getres.expected = None
    /\ getres.err = None =>
         (getres.value # None /\ Content(getres.value) = getres.expected)

-----------------------------------------------------------------------------
(* destroy(location, cb): src 271-299.  dops is the closure's ops, dcb the *)
(* calls of cb, dpc the position: "opened" before the first pull(),        *)
(* "waiting" while the iterator's query is outstanding, "callback" when    *)
(* the callback of iterator.next is due, "flushing" and "lastflush" while  *)
(* a batch is in progress, "done" after cb.  store holds the rows of the   *)
(* partition; the provider deletes the rows whose entries it accepts.      *)

MaxRows == 27
MaxFlushRetries == 1

\* dynamoDown.iterator(): no bounds, and the limit -1 that
\* AbstractLevelDOWN.iterator fills in
DestroyOptions ==
  [gt |-> None, gte |-> None, lt |-> None, lte |-> None,
   limit |-> -1, reverse |-> FALSE]

\* the rows of the partition
Rows(n) == [k \in {KeyName(i) : i \in 1..n} |->
              StoredItem(CHOOSE i \in 1..n : KeyName(i) = k)]

\* the rows after position pos of the scan that are still stored
Live(pos) ==
  LET Stored(it) == it[RangeName].S \in DOMAIN store
  IN  SelectSeq(SubSeq(table, pos + 1, Len(table)), Stored)

\* the provider's answer to query p: a page as full as PageCap(p) allows
LiveResponse(p) ==
  LET live == Live(Position(p.ExclusiveStartKey))
      n == Min(PageCap(p), Len(live))
  IN  [Items |-> SubSeq(live, 1, n),
       LastEvaluatedKey |->
         IF n < Len(live) /\ n > 0 THEN KeyOf(live[n]) ELSE None]

iterState == <<params, items, cursor, ipc, last, out, queries, asked, ends>>
iterFixed == <<options, limit, reverse, lowerBound, upperBound, errs, table,
               pageSize>>
batchState == <<array, ops, reqs, bpc, calls, unproc, opsBefore, accepted,
                bcb, retries, bresps>>

InitDestroy ==
  /\ options = DestroyOptions
  /\ limit = limitOf(options)
  /\ reverse = reverseOf(options)
  /\ lowerBound = lowerBoundOf(options)
  /\ upperBound = upperBoundOf(options)
  /\ params = paramsOf(options)
  /\ items = <<>> /\ cursor = 0
  /\ ipc = "idle" /\ last = None /\ out = <<>> /\ queries = <<>>
  /\ pages = <<>> /\ errs = 0 /\ asked = 0 /\ ends = 0
  /\ \E n \in 0..MaxRows :
       /\ table = ScanOrder(n, reverse)
       /\ store = Rows(n)
  /\ pageSize \in {MaxPage, BatchCap, MaxRows}
  /\ expect = EmptyMap /\ getres = None
  /\ dops = <<>> /\ dpc = "opened" /\ dcb = <<>>
  /\ CodecUnused /\ BatchUnused

\* src 282: iterator.next(...), up to the query or the scheduled callback
pull ==
  /\ NextBody(items, params, 0)
  /\ dpc' = IF ipc' = "querying" THEN "waiting" ELSE "callback"

\* src 293-295: flush, i.e. batch(list, cb) up to its first call or its cb()
flush(list) ==
  LET entries == [i \in DOMAIN list |-> Entry(list[i])]
  IN  /\ array' = list
      /\ dops' = <<>>
      /\ opsBefore' = entries
      /\ unproc' = <<>>
      /\ loop(entries, None, None)
      /\ UNCHANGED <<accepted, retries, bresps>>

\* the end of the iteration with cb called at once, without the last flush
DestroyEndWithoutFlush ==
  /\ dcb' = Append(dcb, Ok)
  /\ dpc' = "done"
  /\ UNCHANGED <<dops, batchState>>

\* src 285: if (!key) return flush(cb)
DestroyEnd ==
  /\ flush(dops)
  /\ IF bpc' = "done"
       THEN dcb' = Append(dcb, Ok) /\ dpc' = "done"
       ELSE dcb' = dcb /\ dpc' = "lastflush"

\* src 287-289: a key arrived
DestroyKey ==
  LET pushed == Append(dops, [type |-> "del", key |-> last.key,
                              value |-> None])
  IN  /\ dcb' = dcb
      /\ IF Len(pushed) < BatchCap
           THEN /\ dops' = pushed
                /\ pull
                /\ UNCHANGED batchState
           ELSE /\ flush(pushed)
                /\ dpc' = "flushing"
                /\ UNCHANGED iterState

\* src 274-297: pull() after open
DestroyStart ==
  /\ dpc = "opened"
  /\ pull
  /\ UNCHANGED <<dops, dcb, batchState, store, pages>>
  /\ UNCHANGED <<iterFixed, berrs, expect, getres, codecVars>>

\* src 128-139: the query callback with data
DestroyQueryOk ==
  /\ dpc = "waiting" /\ ipc = "querying"
  /\ \E data \in {LiveResponse(params)} :
       \E its \in {Fetched(items, data)}, p \in {Continued(params, data)} :
         /\ pages' = Append(pages, Len(data.Items))
         /\ NextBody(its, p, asked)
  /\ dpc' = IF ipc' = "querying" THEN "waiting" ELSE "callback"
  /\ UNCHANGED <<dops, dcb, batchState, store>>
  /\ UNCHANGED <<iterFixed, berrs, expect, getres, codecVars>>

\* src 282-290: the callback of iterator.next
DestroyOnNext ==
  /\ dpc = "callback"
  /\ IF last = End THEN DestroyEnd /\ UNCHANGED iterState ELSE DestroyKey
  /\ UNCHANGED <<store, pages>>
  /\ UNCHANGED <<iterFixed, berrs, expect, getres, codecVars>>

\* src 244-260 and 279-280, 285: batchWriteItem answers with data, the
\* provider deletes what it accepted, loop runs, and when the batch is
\* complete its callback does: pull, or cb
DestroyBatchResponse ==
  /\ dpc \in {"flushing", "lastflush"} /\ bpc = "calling"
  /\ \E S \in UnprocessedChoices(Len(reqs)) :
       \E un \in {SelectIdx(reqs, S)},
          taken \in {SelectIdx(reqs, (1..Len(reqs)) \ S)} :
         \E data \in {[UnprocessedItems |->
                         IF un = <<>> THEN EmptyMap
                         ELSE SetAttr(EmptyMap, TableName, un)]} :
           /\ un # <<>> => retries < MaxFlushRetries
           /\ retries' = IF un # <<>> THEN retries + 1 ELSE retries
           /\ accepted' = accepted \o taken
           /\ store' = Applied(store, taken)
           /\ unproc' = un
           /\ opsBefore' = ops
           /\ bresps' = bresps + 1
           /\ loop(ops, None, data)
  /\ IF bpc' # "done" THEN UNCHANGED <<dpc, dcb, iterState>>
     ELSE IF dpc = "flushing" THEN pull /\ dcb' = dcb
     ELSE dcb' = Append(dcb, Ok) /\ dpc' = "done" /\ UNCHANGED iterState
  /\ UNCHANGED <<array, dops, pages>>
  /\ UNCHANGED <<iterFixed, berrs, expect, getres, codecVars>>

NextDestroy ==
  DestroyStart \/ DestroyQueryOk \/ DestroyOnNext \/ DestroyBatchResponse

\* the provider answers every request, and accepts in the end
SpecDestroy ==
  InitDestroy /\ [][NextDestroy]_vars /\ WF_vars(NextDestroy)

\* C18: destroy calls cb, once and without error; by then every row the
\* iterator returned was accepted in a delete entry, exactly once, and the
\* partition is empty; no call holds more than 25 entries; and while a
\* batch is in progress the iterator rests: no step that moves it leaves a
\* call outstanding.
C18_DestroyDeletesAll ==
  /\ <>(dpc = "done")
  /\ [](Len(dcb) <= 1)
  /\ [](dpc = "done" =>
          /\ dcb = <<Ok>>
          /\ store = EmptyMap
          /\ Len(out) = Len(table)
          /\ Len(accepted) = Len(out)
          /\ \A i \in DOMAIN out :
               \E j \in DOMAIN accepted :
                 accepted[j] = Entry([type |-> "del", key |-> out[i].key,
                                      value |-> None]))
  /\ [](bpc = "calling" =>
          /\ Len(reqs) <= BatchCap /\ Len(reqs) > 0
          /\ ipc = "idle"
          /\ dpc \in {"flushing", "lastflush"})
  /\ [][<<out, queries, cursor>>' # <<out, queries, cursor>>
          => bpc' # "calling"]_vars

\* C18 witness: a partition of more than 25 rows destroyed, with a flush of
\* 25 that needed a second call and a last flush of the rest.
C18_Witness ==
  /\ dpc = "done" /\ Len(table) > BatchCap /\ retries = 1
  /\ store = EmptyMap /\ Len(bcb) = 2 /\ calls >= 3

=============================================================================
